---- MODULE Spec2Model ----
(***************************************************************************)
(* Music76489 (src/music76489.py): the VGM 1.50 loader, the tick-driven    *)
(* playback machine, the chip reset, the register encoders (set_vol,       *)
(* play_freq) and the note player (play_notes), as a state machine.        *)
(*                                                                         *)
(* Buffers are sequences of bytes; the code's 0-based index k is element   *)
(* k + 1 of the sequence.  tick() is modelled at the grain of its while    *)
(* loop: TickBegin is the code before the loop, and each Tick* step is one *)
(* iteration; while a call is running (pc = "tick") nothing else can run,  *)
(* the driver being single-threaded.  play_notes() is modelled the same    *)
(* way: PlayNotes is the code before its while loop and each Notes* step   *)
(* is one iteration (pc = "notes").                                        *)
(***************************************************************************)
EXTENDS Integers, Sequences, FiniteSets, TLC

VARIABLES
    disk,           \* the files on storage
    data,           \* self._data
    offset,         \* self._offset
    should_loop,    \* self._should_loop
    loop_offset,    \* self._loop_offset
    ticks_to_wait,  \* self._ticks_to_wait
    end_of_song,    \* self._end_of_song
    pc,             \* "idle", "tick" inside the while loop of tick(), or
                    \* "notes" inside the while loop of play_notes()
    i,              \* the running loop's local i (0 outside the loops)
    op,             \* the current/latest call: "init", "load", "reset", "tick",
                    \* "set_vol", "play_freq", "play_notes"
    result,         \* how the latest finished call ended: [kind, at, val]
    port,           \* bytes given to _write_port_data by the current/latest call
    played,         \* bytes written by tick() calls since the latest load_vgm
    ticks,          \* tick() calls since the latest load_vgm (counted to MaxTicks)
    seen,           \* the offsets the running loop has interpreted so far
    start,          \* what the latest load_vgm left: "none" (it failed, or a
                    \* reset() came after it), "ready" (a track, cursor 0, no
                    \* pending wait, not ended) or "carried" (a track, with a
                    \* pending wait or the ended flag of before)
    call,           \* the arguments of the current/latest set_vol, play_freq
                    \* or play_notes call (<<>> for the other calls)
    notes,          \* play_notes()'s local notes (<<>> outside the call)
    voice,          \* play_notes()'s local voice
    octave,         \* play_notes()'s local octave
    duration        \* play_notes()'s local duration

\* the locals of play_notes() and the arguments of the encoder calls
synth == <<call, notes, voice, octave, duration>>

\* the fields and locals of the VGM player
player == <<data, offset, should_loop, loop_offset, ticks_to_wait, end_of_song,
            played, ticks, start>>

vars == <<disk, data, offset, should_loop, loop_offset, ticks_to_wait,
          end_of_song, pc, i, op, result, port, played, ticks, seen, start,
          call, notes, voice, octave, duration>>

----------------------------------------------------------------------------
(* Bounds of the model. *)

\* commands before the tail of a generated command stream
MaxCmds == 2
\* tick() is not called once ticks_to_wait has sunk to -MaxDebt
MaxDebt == 2
\* port and played record at most this many bytes
MaxLog == 6
\* ticks counts up to this value and stays there
MaxTicks == 2
\* play_notes is given every script up to this length (and LongScripts)
MaxScript == 2

----------------------------------------------------------------------------
(* Program constants. *)

HeaderLen == \h40
PsgClock == 3579545
VgmVersion == \h150
SamplesPerTick == 735
OpWrite == \h50
OpWaitN == \h61
OpWaitOne == \h62
OpEnd == \h66
reset_seq == <<\h9F, \hBF, \hDF, \hFF>>
\* "Vgm " as code points
VgmTag == <<\h56, \h67, \h6D, \h20>>

----------------------------------------------------------------------------
(* Byte buffers. *)

Min(a, b) == IF a < b THEN a ELSE b

\* buf[from:to] of the code (0-based, end excluded, clipped like a slice)
Slice(buf, from, to) == SubSeq(buf, from + 1, Min(to, Len(buf)))

\* file.read(n) at position pos, n >= 0: at most n bytes, fewer at the end
Read(file, pos, n) == Slice(file, pos, pos + n)

\* struct.unpack_from("<I", buf, off): fails when 4 bytes are not there
UnpackU32(buf, off) ==
    IF off + 4 > Len(buf)
    THEN [ok |-> FALSE, val |-> 0]
    ELSE [ok |-> TRUE,
          val |-> buf[off + 1] + 256 * buf[off + 2] + 65536 * buf[off + 3]
                  + 16777216 * buf[off + 4]]

\* struct.unpack_from("<H", buf, off): a negative off counts from the end
UnpackU16(buf, off) ==
    LET o == IF off < 0 THEN Len(buf) + off ELSE off
    IN  IF o < 0 \/ o + 2 > Len(buf)
        THEN [ok |-> FALSE, val |-> 0]
        ELSE [ok |-> TRUE, val |-> buf[o + 1] + 256 * buf[o + 2]]

\* buf[k] of the code: a negative k counts from the end, out of range fails
Index(buf, k) ==
    LET o == IF k < 0 THEN Len(buf) + k ELSE k
    IN  IF o < 0 \/ o >= Len(buf)
        THEN [ok |-> FALSE, val |-> 0]
        ELSE [ok |-> TRUE, val |-> buf[o + 1]]

IsCont(b) == b >= \h80 /\ b <= \hBF

\* bytes.decode("utf-8"): the code points, or a failure (UnicodeError) on a
\* byte that starts no sequence or a sequence cut short
RECURSIVE Utf8Decode(_)
Utf8Decode(bs) ==
    IF bs = <<>> THEN [ok |-> TRUE, chars |-> <<>>]
    ELSE
        LET b == Head(bs)
            need == IF b < \h80 THEN 0
                    ELSE IF b >= \hC2 /\ b <= \hDF THEN 1
                    ELSE IF b >= \hE0 /\ b <= \hEF THEN 2
                    ELSE IF b >= \hF0 /\ b <= \hF4 THEN 3
                    ELSE 4
        IN  IF need = 4 \/ Len(bs) < need + 1
               \/ \E k \in 2..(need + 1) : ~IsCont(bs[k])
            THEN [ok |-> FALSE, chars |-> <<>>]
            ELSE
                LET lead == IF need = 0 THEN b
                            ELSE IF need = 1 THEN b - \hC0
                            ELSE IF need = 2 THEN b - \hE0
                            ELSE b - \hF0
                    cp == IF need = 0 THEN lead
                          ELSE IF need = 1 THEN lead * 64 + (bs[2] - \h80)
                          ELSE IF need = 2
                               THEN lead * 4096 + (bs[2] - \h80) * 64 + (bs[3] - \h80)
                          ELSE lead * 262144 + (bs[2] - \h80) * 4096
                               + (bs[3] - \h80) * 64 + (bs[4] - \h80)
                    rest == Utf8Decode(SubSeq(bs, need + 2, Len(bs)))
                IN  IF rest.ok
                    THEN [ok |-> TRUE, chars |-> <<cp>> \o rest.chars]
                    ELSE rest

----------------------------------------------------------------------------
(* The files on storage: inputs of load_vgm.  Every file named exists, and  *)
(* every end-of-file offset drawn is at least 0x3C, so that the size given  *)
(* to the second file.read is not negative.                                  *)

LE32(n) == <<n % 256, (n \div 256) % 256, (n \div 65536) % 256,
             (n \div 16777216) % 256>>

Zeros(n) == [k \in 1..n |-> 0]

\* a file on storage, named by what its writer put in the header fields the
\* loader reads, the bytes after the header, and the length it was cut to
File(tag, eof, version, clock, loop, body, cut) ==
    [tag |-> tag, eof |-> eof, version |-> version, clock |-> clock,
     loop |-> loop, body |-> body, cut |-> cut]

\* the bytes of a file: the 64-byte VGM header, then the body
Bytes(f) ==
    LET all == f.tag \o LE32(f.eof) \o LE32(f.version) \o LE32(f.clock)
               \o Zeros(12) \o LE32(f.loop) \o Zeros(32) \o f.body
    IN  SubSeq(all, 1, Min(f.cut, Len(all)))

\* a file that is whole and whose end-of-file offset is its length - 4
Whole(tag, version, clock, loop, body) ==
    File(tag, HeaderLen + Len(body) - 4, version, clock, loop, body,
         HeaderLen + Len(body))

\* commands of a stream: two register writes, waits of 734, 735 and 1470
\* samples, the one-tick wait
BodyCmds == { <<OpWrite, \h01>>, <<OpWrite, \h02>>,
              <<OpWaitN, \hDE, \h02>>, <<OpWaitN, \hDF, \h02>>,
              <<OpWaitN, \hBE, \h05>>, <<OpWaitOne>> }

\* how a stream ends: the end marker, an opcode the player does not know,
\* nothing, or a command cut before its operands
Tails == { <<OpEnd>>, <<\h63>>, <<>>, <<OpWrite>>, <<OpWaitN, \hDF>> }

RECURSIVE Flatten(_)
Flatten(ss) == IF ss = <<>> THEN <<>> ELSE Head(ss) \o Flatten(Tail(ss))

Bodies == UNION { { Flatten(cs) : cs \in [1..n -> BodyCmds] } : n \in 0..MaxCmds }

Streams == { b \o t : b \in Bodies, t \in Tails }

\* well-formed files around every stream, without a loop and with the loop
\* point at the first byte of the stream
PlayFiles ==
    { Whole(VgmTag, VgmVersion, PsgClock, l, s) : l \in {0, \h24}, s \in Streams }

\* loop points before the stream, inside it and right after its last byte
LoopFiles ==
    UNION { { Whole(VgmTag, VgmVersion, PsgClock, l, s)
              : l \in {\h22, \h23, \h26, \h24 + Len(s)} }
            : s \in { <<OpEnd>>, <<OpWrite, \h01, OpEnd>>,
                      <<OpWaitOne, OpWrite, \h02, OpEnd>> } }

\* the tags: the right one, a wrong one, one that is not UTF-8
Tags == { VgmTag, <<\h56, \h67, \h6D, \h21>>, <<\hFF, \h67, \h6D, \h20>> }

\* every combination of tag, version and clock, with end-of-file offsets
\* that fall short of, at and beyond the end of the file
HeaderFiles ==
    LET s == <<OpWrite, \h01, OpEnd>>
    IN  { File(t, HeaderLen + Len(s) - 4 + d, v, c, 0, s, HeaderLen + Len(s))
          : t \in Tags, v \in {VgmVersion, \h151}, c \in {PsgClock, 4000000},
            d \in {-1, 0, 2} }

\* files cut inside the header
ShortFiles ==
    { File(VgmTag, HeaderLen - 3, VgmVersion, PsgClock, \h24, <<OpEnd>>, n)
      : n \in {3, 10, 14, 20} }

Files == PlayFiles \cup LoopFiles \cup HeaderFiles \cup ShortFiles

\* files whose stream is a tail alone, for a storage that holds two files
PairFiles ==
    { Whole(t, VgmVersion, PsgClock, l, s)
      : t \in {VgmTag, <<\h56, \h67, \h6D, \h21>>}, l \in {0, \h24},
        s \in {<<OpEnd>>, <<\h63>>} }

Disks == { <<f>> : f \in Files } \cup { <<f, g>> : f \in PairFiles, g \in PairFiles }

----------------------------------------------------------------------------
(* Outcomes of a call. *)

Outcome(kind, at, val) == [kind |-> kind, at |-> at, val |-> val]
Ok == Outcome("ok", 0, 0)

\* the log of written bytes keeps its first MaxLog entries
Log(log, b) == IF Len(log) < MaxLog THEN Append(log, b) ELSE log

----------------------------------------------------------------------------
(* load_vgm and reset. *)

\* load_vgm after its reset(): what it raises, and the fields it has assigned
\* by then.  set_data / set_loop say whether the assignment was reached.
LoadFile(f) ==
    LET file == Bytes(f)
        header == Read(file, 0, HeaderLen)
        tag == Utf8Decode(Slice(header, 0, 4))
        version == UnpackU32(header, 8)
        clock == UnpackU32(header, 12)
        file_len == UnpackU32(header, 4)
        loop == UnpackU32(header, \h1C)
        none == [res |-> Ok, set_data |-> FALSE, data |-> <<>>,
                 set_loop |-> FALSE, should_loop |-> FALSE, loop_offset |-> 0]
    IN  IF ~tag.ok
        THEN [none EXCEPT !.res = Outcome("UnicodeError", 0, 0)]
        ELSE IF tag.chars # VgmTag
        THEN [none EXCEPT !.res = Outcome("Invalid header", 0, 0)]
        ELSE IF ~version.ok
        THEN [none EXCEPT !.res = Outcome("buffer too small", 8, 0)]
        ELSE IF version.val # VgmVersion
        THEN [none EXCEPT !.res = Outcome("Invalid VGM version format", 8, version.val)]
        ELSE IF ~clock.ok
        THEN [none EXCEPT !.res = Outcome("buffer too small", 12, 0)]
        ELSE IF clock.val # PsgClock
        THEN [none EXCEPT !.res = Outcome("Invalid VGM clock freq", 12, clock.val)]
        ELSE IF ~file_len.ok
        THEN [none EXCEPT !.res = Outcome("buffer too small", 4, 0)]
        ELSE
            LET d == Read(file, Len(header), file_len.val + 4 - HeaderLen)
                got == [none EXCEPT !.set_data = TRUE, !.data = d]
            IN  IF ~loop.ok
                THEN [got EXCEPT !.res = Outcome("buffer too small", \h1C, 0)]
                ELSE [got EXCEPT !.set_loop = TRUE,
                                 !.should_loop = (loop.val # 0),
                                 !.loop_offset = loop.val + \h1C - HeaderLen]

\* load_vgm(filename) on file k of the storage
Load(k) ==
    /\ pc = "idle"
    /\ op' = "load"
    /\ LET r == LoadFile(disk[k])
       IN  /\ port' = reset_seq
           /\ offset' = 0
           /\ data' = IF r.set_data THEN r.data ELSE <<>>
           /\ should_loop' = IF r.set_loop THEN r.should_loop ELSE should_loop
           /\ loop_offset' = IF r.set_loop THEN r.loop_offset ELSE loop_offset
           /\ result' = r.res
           /\ start' = IF r.res # Ok THEN "none"
                       ELSE IF ticks_to_wait = 0 /\ ~end_of_song THEN "ready"
                       ELSE "carried"
    /\ played' = <<>>
    /\ ticks' = 0
    /\ UNCHANGED <<disk, ticks_to_wait, end_of_song, pc, i, seen>>
    /\ UNCHANGED synth

\* Reset leaving the cursor where it was
ResetKeepsCursor ==
    /\ pc = "idle"
    /\ op' = "reset"
    /\ port' = reset_seq
    /\ data' = <<>>
    /\ result' = Ok
    /\ start' = "none"
    /\ call' = <<>>
    /\ UNCHANGED <<disk, offset, should_loop, loop_offset, ticks_to_wait,
                   end_of_song, pc, i, played, ticks, seen, notes, voice, octave,
                   duration>>

\* reset()
Reset ==
    /\ pc = "idle"
    /\ op' = "reset"
    /\ port' = reset_seq
    /\ offset' = 0
    /\ data' = <<>>
    /\ result' = Ok
    /\ start' = "none"
    /\ call' = <<>>
    /\ UNCHANGED <<disk, should_loop, loop_offset, ticks_to_wait, end_of_song,
                   pc, i, played, ticks, seen, notes, voice, octave, duration>>

----------------------------------------------------------------------------
(* tick. *)

Count(n, max) == IF n < max THEN n + 1 ELSE n

\* _delay_n(samples): the ticks a wait of that many samples adds
DelayN(samples) == samples \div SamplesPerTick

\* TickBegin with the wait counted down before the end-of-song test
TickBeginCountsFirst ==
    /\ pc = "idle"
    /\ ticks_to_wait > -MaxDebt
    /\ op' = "tick"
    /\ port' = <<>>
    /\ ticks' = Count(ticks, MaxTicks)
    /\ ticks_to_wait' = ticks_to_wait - 1
    /\ IF end_of_song
       THEN /\ result' = Outcome("End of song reached", 0, 0)
            /\ UNCHANGED <<pc, i>>
       ELSE IF ticks_to_wait - 1 > 0
            THEN result' = Ok /\ UNCHANGED <<pc, i>>
            ELSE pc' = "tick" /\ i' = offset /\ UNCHANGED result
    /\ UNCHANGED <<disk, data, offset, should_loop, loop_offset, end_of_song,
                   played, seen, start>>
    /\ UNCHANGED synth

\* tick() up to its while loop
TickBegin ==
    /\ pc = "idle"
    /\ ticks_to_wait > -MaxDebt
    /\ op' = "tick"
    /\ port' = <<>>
    /\ ticks' = Count(ticks, MaxTicks)
    /\ IF end_of_song
       THEN /\ result' = Outcome("End of song reached", 0, 0)
            /\ UNCHANGED <<ticks_to_wait, pc, i>>
       ELSE /\ ticks_to_wait' = ticks_to_wait - 1
            /\ IF ticks_to_wait - 1 > 0
               THEN result' = Ok /\ UNCHANGED <<pc, i>>
               ELSE pc' = "tick" /\ i' = offset /\ UNCHANGED result
    /\ UNCHANGED <<disk, data, offset, should_loop, loop_offset, end_of_song,
                   played, seen, start>>
    /\ UNCHANGED synth

\* the loop goes on to offset next
Continue(next) ==
    /\ i' = next
    /\ seen' = seen \cup {i}
    /\ UNCHANGED <<offset, ticks_to_wait, end_of_song, pc, result>>

\* an exception leaves the loop: self._offset keeps its value
Raise(kind, at, val) ==
    /\ pc' = "idle"
    /\ i' = 0
    /\ seen' = {}
    /\ result' = Outcome(kind, at, val)
    /\ UNCHANGED <<offset, ticks_to_wait, end_of_song, port, played>>

\* break, then self._offset = i
Break(next) ==
    /\ pc' = "idle"
    /\ i' = 0
    /\ seen' = {}
    /\ offset' = next
    /\ result' = Ok

\* one iteration of the while loop
InLoop ==
    /\ pc = "tick"
    /\ UNCHANGED <<disk, data, should_loop, loop_offset, op, ticks, start>>
    /\ UNCHANGED synth

\* if i >= len(data): raise
TickPastEnd ==
    /\ InLoop
    /\ i >= Len(data)
    /\ Raise("unexpected offset", i, Len(data))

\* data[i] with i below -len(data)
TickBadIndex ==
    /\ InLoop
    /\ i < Len(data)
    /\ ~Index(data, i).ok
    /\ Raise("IndexError", i, 0)

Opcode == Index(data, i).val

\* data[i] == op
Fetch(o) ==
    /\ InLoop
    /\ i < Len(data)
    /\ Index(data, i).ok
    /\ Opcode = o

\* TickWrite sending the opcode byte, not its operand
TickWriteOpcode ==
    /\ Fetch(OpWrite)
    /\ LET dd == Index(data, i)
       IN  /\ port' = Log(port, dd.val)
           /\ played' = Log(played, dd.val)
           /\ Continue(i + 2)

\* 0x50 dd
TickWrite ==
    /\ Fetch(OpWrite)
    /\ LET dd == Index(data, i + 1)
       IN  IF ~dd.ok
           THEN Raise("IndexError", i + 1, 0)
           ELSE /\ port' = Log(port, dd.val)
                /\ played' = Log(played, dd.val)
                /\ Continue(i + 2)

\* TickWaitN storing the wait instead of adding it to the counter
TickWaitNSets ==
    /\ Fetch(OpWaitN)
    /\ LET delay == UnpackU16(data, i + 1)
       IN  IF ~delay.ok
           THEN Raise("buffer too small", i + 1, 0)
           ELSE /\ ticks_to_wait' = DelayN(delay.val)
                /\ Break(i + 3)
                /\ UNCHANGED <<end_of_song, port, played>>

\* 0x61 nn nn
TickWaitN ==
    /\ Fetch(OpWaitN)
    /\ LET delay == UnpackU16(data, i + 1)
       IN  IF ~delay.ok
           THEN Raise("buffer too small", i + 1, 0)
           ELSE /\ ticks_to_wait' = ticks_to_wait + DelayN(delay.val)
                /\ Break(i + 3)
                /\ UNCHANGED <<end_of_song, port, played>>

\* 0x62
TickWaitOne ==
    /\ Fetch(OpWaitOne)
    /\ ticks_to_wait' = ticks_to_wait + 1
    /\ Break(i + 1)
    /\ UNCHANGED <<end_of_song, port, played>>

\* 0x66
TickEnd ==
    /\ Fetch(OpEnd)
    /\ IF should_loop
       THEN /\ Continue(loop_offset)
            /\ UNCHANGED <<port, played>>
       ELSE /\ end_of_song' = TRUE
            /\ Break(i)
            /\ UNCHANGED <<ticks_to_wait, port, played>>

\* TickUnknown reporting the cursor of the call's start, not the offset reached
TickUnknownAtCursor ==
    /\ InLoop
    /\ i < Len(data)
    /\ Index(data, i).ok
    /\ Opcode \notin {OpWrite, OpWaitN, OpWaitOne, OpEnd}
    /\ Raise("Unknown value", offset, Opcode)

\* any other byte
TickUnknown ==
    /\ InLoop
    /\ i < Len(data)
    /\ Index(data, i).ok
    /\ Opcode \notin {OpWrite, OpWaitN, OpWaitOne, OpEnd}
    /\ Raise("Unknown value", i, Opcode)

\* the while loop of tick()
TickLoop ==
    \/ TickPastEnd
    \/ TickBadIndex
    \/ TickWrite
    \/ TickWaitN
    \/ TickWaitOne
    \/ TickEnd
    \/ TickUnknown

----------------------------------------------------------------------------
(* The register encoders: set_vol and play_freq. *)

\* a | b and a & b of the code, on naturals
RECURSIVE BitOr(_, _)
BitOr(a, b) ==
    IF a = 0 THEN b
    ELSE IF b = 0 THEN a
    ELSE (IF a % 2 = 1 \/ b % 2 = 1 THEN 1 ELSE 0) + 2 * BitOr(a \div 2, b \div 2)

RECURSIVE BitAnd(_, _)
BitAnd(a, b) ==
    IF a = 0 \/ b = 0 THEN 0
    ELSE (IF a % 2 = 1 /\ b % 2 = 1 THEN 1 ELSE 0) + 2 * BitAnd(a \div 2, b \div 2)

\* the byte set_vol writes: 0b1001_0000 | channel << 5 | 15 - vol
VolByte(channel, vol) == BitOr(BitOr(\h90, channel * 32), 15 - vol)

\* play_freq's reg for a whole number of Hz: clock // (freq * 2 * 16), at
\* most MaxReg
MaxReg == 1021
ToneReg(freq) == Min(PsgClock \div (freq * 2 * 16), MaxReg)

\* the two bytes play_freq writes: latch with the low 4 bits, then the rest
ToneBytes(channel, reg) ==
    << BitOr(BitOr(\h80, channel * 32), BitAnd(reg, 15)), BitOr(0, reg \div 16) >>

\* the arguments drawn for set_vol and play_freq; they stay inside the ranges
\* the docstrings give (the asserts of set_vol hold)
Channels == 0..3
ToneChannels == 0..2
Vols == {0, 9, 15}
Freqs == {1, 109, 110, 440, 7902, 55930, 4000000}

\* SetVol writing the volume itself, not the attenuation 15 - vol
SetVolPlain(channel, vol) ==
    /\ pc = "idle"
    /\ op' = "set_vol"
    /\ call' = <<channel, vol>>
    /\ port' = <<BitOr(BitOr(\h90, channel * 32), vol)>>
    /\ result' = Ok
    /\ UNCHANGED <<disk, player, pc, i, seen, notes, voice, octave, duration>>

\* set_vol(channel, vol)
SetVol(channel, vol) ==
    /\ pc = "idle"
    /\ op' = "set_vol"
    /\ call' = <<channel, vol>>
    /\ port' = <<VolByte(channel, vol)>>
    /\ result' = Ok
    /\ UNCHANGED <<disk, player, pc, i, seen, notes, voice, octave, duration>>

\* PlayFreq without the ceiling of 1021 on reg
PlayFreqNoCeiling(channel, freq) ==
    /\ pc = "idle"
    /\ op' = "play_freq"
    /\ call' = <<channel, freq>>
    /\ port' = ToneBytes(channel, PsgClock \div (freq * 2 * 16))
    /\ result' = Ok
    /\ UNCHANGED <<disk, player, pc, i, seen, notes, voice, octave, duration>>

\* play_freq(channel, freq)
PlayFreq(channel, freq) ==
    /\ pc = "idle"
    /\ op' = "play_freq"
    /\ call' = <<channel, freq>>
    /\ port' = ToneBytes(channel, ToneReg(freq))
    /\ result' = Ok
    /\ UNCHANGED <<disk, player, pc, i, seen, notes, voice, octave, duration>>

----------------------------------------------------------------------------
(* play_notes. *)

\* a script is a sequence of characters; these are the characters drawn
ScriptChars == {"V", "O", "U", "1", "9", "C", "E", "#", "S", ",", " ", "X"}

\* some longer scripts: a voice and a note, a voice and a volume, an octave
\* and a sharp note, two notes with a duration between them
LongScripts == { <<"V", "1", "C">>, <<"V", "1", "U", "9">>,
                 <<"O", "5", "C", "#">>, <<"C", "S", "E">> }

Scripts == UNION { [1..n -> ScriptChars] : n \in 0..MaxScript } \cup LongScripts

NoteLetters == {"C", "D", "E", "F", "G", "A", "B"}
DurationLetters == {"W", "H", "Q", "I", "S"}
Separators == {" ", ","}

chromatic ==
    ("C" :> 0) @@ ("C#" :> 1) @@ ("D" :> 2) @@ ("D#" :> 3) @@ ("E" :> 4)
    @@ ("F" :> 5) @@ ("F#" :> 6) @@ ("G" :> 7) @@ ("G#" :> 8) @@ ("A" :> 9)
    @@ ("A#" :> 10) @@ ("B" :> 11)

dur_dict == ("W" :> 64) @@ ("H" :> 32) @@ ("Q" :> 16) @@ ("I" :> 8) @@ ("S" :> 4)

\* int(c) of a character: its value, or no value (ValueError)
Digits ==
    ("0" :> 0) @@ ("1" :> 1) @@ ("2" :> 2) @@ ("3" :> 3) @@ ("4" :> 4)
    @@ ("5" :> 5) @@ ("6" :> 6) @@ ("7" :> 7) @@ ("8" :> 8) @@ ("9" :> 9)

ParseInt(c) ==
    IF c \in DOMAIN Digits THEN [ok |-> TRUE, val |-> Digits[c]]
    ELSE [ok |-> FALSE, val |-> 0]

\* the local voice holds the int 0 at first, and a character after a V token
IntVoice(n) == [int |-> TRUE, val |-> n, ch |-> ""]
StrVoice(c) == [int |-> FALSE, val |-> 0, ch |-> c]

\* _play_note's register value: int(clock // (freq * 32)) for the frequency
\* 16.35 * 2 ** ((octave * 12 + note) / 12), in double precision; the table
\* holds the values of octave 0, and an octave up halves the value
NoteBase ==
    <<6841, 6457, 6095, 5753, 5430, 5125, 4837, 4566, 4309, 4068, 3839, 3624>>

NoteReg(note, oct) == Min(NoteBase[note + 1] \div (2 ^ oct), MaxReg)

\* play_notes(s) up to its while loop
PlayNotes(s) ==
    /\ pc = "idle"
    /\ op' = "play_notes"
    /\ call' = s
    /\ notes' = s \o <<" ">>
    /\ voice' = IntVoice(0)
    /\ octave' = 4
    /\ duration' = 16
    /\ i' = 0
    /\ seen' = {}
    /\ port' = <<>>
    /\ pc' = "notes"
    /\ UNCHANGED <<disk, player, result>>

\* one iteration of the while loop of play_notes
InNotes ==
    /\ pc = "notes"
    /\ UNCHANGED <<disk, player, op, call>>

\* the call is over: the locals are gone
NotesLeave ==
    /\ pc' = "idle"
    /\ i' = 0
    /\ seen' = {}
    /\ notes' = <<>>
    /\ voice' = IntVoice(0)
    /\ octave' = 4
    /\ duration' = 16

\* an exception leaves play_notes
NotesRaise(kind) ==
    /\ NotesLeave
    /\ result' = Outcome(kind, i, 0)
    /\ UNCHANGED port

\* the loop goes on at index next
NotesGo(next) ==
    /\ i' = next
    /\ seen' = seen \cup {i}
    /\ UNCHANGED <<pc, notes, result>>

\* notes[i] == c
NotesAt(cs) ==
    /\ InNotes
    /\ i < Len(notes)
    /\ notes[i + 1] \in cs

\* notes[k]
NotesIndex(k) ==
    IF k < Len(notes) THEN [ok |-> TRUE, val |-> notes[k + 1]]
    ELSE [ok |-> FALSE, val |-> ""]

\* the loop's condition fails: set_vol(0, 0), return
NotesDone ==
    /\ InNotes
    /\ i >= Len(notes)
    /\ port' = Log(port, VolByte(0, 0))
    /\ result' = Ok
    /\ NotesLeave

\* V<c>
NotesVoice ==
    /\ NotesAt({"V"})
    /\ LET c == NotesIndex(i + 1)
       IN  IF ~c.ok
           THEN NotesRaise("IndexError") /\ UNCHANGED <<voice, octave, duration>>
           ELSE /\ voice' = StrVoice(c.val)
                /\ NotesGo(i + 2)
                /\ UNCHANGED <<octave, duration, port>>

\* O<c>
NotesOctave ==
    /\ NotesAt({"O"})
    /\ LET c == NotesIndex(i + 1)
       IN  IF ~c.ok THEN NotesRaise("IndexError")
           ELSE IF ~ParseInt(c.val).ok THEN NotesRaise("ValueError")
           ELSE /\ octave' = ParseInt(c.val).val
                /\ NotesGo(i + 2)
                /\ UNCHANGED <<voice, duration, port>>

\* a note letter, with # or without: set_vol(voice, 9), _play_note,
\* set_vol(voice, 0)
NotesNote ==
    /\ NotesAt(NoteLetters)
    /\ LET c == NotesIndex(i + 1)
           sharp == c.ok /\ c.val = "#"
           n == IF sharp THEN notes[i + 1] \o "#" ELSE notes[i + 1]
       IN  IF ~c.ok THEN NotesRaise("IndexError")
           ELSE IF n \notin DOMAIN chromatic THEN NotesRaise("KeyError")
           ELSE IF ~voice.int THEN NotesRaise("TypeError")
           ELSE LET reg == NoteReg(chromatic[n], octave)
                    tone == ToneBytes(voice.val, reg)
                    p1 == Log(port, VolByte(voice.val, 9))
                    p2 == Log(p1, tone[1])
                    p3 == Log(p2, tone[2])
                IN  /\ port' = Log(p3, VolByte(voice.val, 0))
                    /\ NotesGo(IF sharp THEN i + 2 ELSE i + 1)
                    /\ UNCHANGED <<voice, octave, duration>>

\* U<c>
NotesVolume ==
    /\ NotesAt({"U"})
    /\ LET c == NotesIndex(i + 1)
       IN  IF ~c.ok THEN NotesRaise("IndexError")
           ELSE IF ~ParseInt(c.val).ok THEN NotesRaise("ValueError")
           ELSE IF ~voice.int THEN NotesRaise("TypeError")
           ELSE /\ port' = Log(port, VolByte(voice.val, ParseInt(c.val).val))
                /\ NotesGo(i + 2)
                /\ UNCHANGED <<voice, octave, duration>>

\* W, H, Q, I or S
NotesDuration ==
    /\ NotesAt(DurationLetters)
    /\ duration' = dur_dict[notes[i + 1]]
    /\ NotesGo(i + 1)
    /\ UNCHANGED <<voice, octave, port>>

\* a space or a comma
NotesSeparator ==
    /\ NotesAt(Separators)
    /\ NotesGo(i + 1)
    /\ UNCHANGED <<voice, octave, duration, port>>

\* the characters some branch of the loop takes
TokenChars == {"V", "O", "U"} \cup NoteLetters \cup DurationLetters \cup Separators

\* any other character: no branch is taken, i stays
NotesOther ==
    /\ InNotes
    /\ i < Len(notes)
    /\ notes[i + 1] \notin TokenChars
    /\ NotesGo(i)
    /\ UNCHANGED <<voice, octave, duration, port>>

\* the while loop of play_notes()
NotesLoop ==
    \/ NotesDone
    \/ NotesVoice
    \/ NotesOctave
    \/ NotesNote
    \/ NotesVolume
    \/ NotesDuration
    \/ NotesSeparator
    \/ NotesOther

----------------------------------------------------------------------------
(* The machine. *)

\* __init__: the fields' first values, then reset()
Fresh ==
    /\ data = <<>>
    /\ offset = 0
    /\ should_loop = FALSE
    /\ loop_offset = 0
    /\ ticks_to_wait = 0
    /\ end_of_song = FALSE
    /\ pc = "idle"
    /\ i = 0
    /\ op = "init"
    /\ result = Ok
    /\ port = reset_seq
    /\ played = <<>>
    /\ ticks = 0
    /\ seen = {}
    /\ start = "none"
    /\ call = <<>>
    /\ notes = <<>>
    /\ voice = IntVoice(0)
    /\ octave = 4
    /\ duration = 16

\* the player, with some files on storage
Init == disk \in Disks /\ Fresh

Next ==
    \/ \E k \in DOMAIN disk : Load(k)
    \/ Reset
    \/ TickBegin
    \/ TickLoop

Spec == Init /\ [][Next]_vars

\* the encoders and the note player, with no file on storage
SynthInit == disk = <<>> /\ Fresh

SynthNext ==
    \/ Reset
    \/ \E c \in Channels, v \in Vols : SetVol(c, v)
    \/ \E c \in ToneChannels, f \in Freqs : PlayFreq(c, f)
    \/ \E s \in Scripts : PlayNotes(s)
    \/ NotesLoop

SynthSpec == SynthInit /\ [][SynthNext]_vars

----------------------------------------------------------------------------
(* What the documentation says of the loader and the player. *)

EndOfSong == Outcome("End of song reached", 0, 0)

\* C1: a load_vgm that succeeds leaves the engine in Ready, whatever the state
\* it is called in: cursor 0, no pending wait, not ended.
C1_LoadLeavesReady ==
    (op = "load" /\ result = Ok) =>
        (offset = 0 /\ ticks_to_wait = 0 /\ ~end_of_song)

\* the operand bytes of the 0x50 commands of a stream, in stream order
RECURSIVE Operands(_)
Operands(s) ==
    IF s = <<>> THEN <<>>
    ELSE IF s[1] = OpWrite /\ Len(s) >= 2
         THEN <<s[2]>> \o Operands(SubSeq(s, 3, Len(s)))
    ELSE IF s[1] = OpWaitN /\ Len(s) >= 3 THEN Operands(SubSeq(s, 4, Len(s)))
    ELSE IF s[1] = OpWaitOne THEN Operands(Tail(s))
    ELSE <<>>

\* a stream of 0x50 dd, 0x61 lo hi and 0x62 commands that 0x66 ends
RECURSIVE WellFormed(_)
WellFormed(s) ==
    IF s = <<>> THEN FALSE
    ELSE IF s[1] = OpEnd THEN Len(s) = 1
    ELSE IF s[1] = OpWrite THEN Len(s) >= 3 /\ WellFormed(SubSeq(s, 3, Len(s)))
    ELSE IF s[1] = OpWaitN THEN Len(s) >= 4 /\ WellFormed(SubSeq(s, 4, Len(s)))
    ELSE IF s[1] = OpWaitOne THEN WellFormed(Tail(s))
    ELSE FALSE

IsPrefix(a, b) == Len(a) <= Len(b) /\ a = SubSeq(b, 1, Len(a))

\* C2: ticking a well-formed stream without a loop from Ready writes the
\* operands of its 0x50 commands, in stream order and nothing else: a prefix
\* of them while the song plays, all of them once it has ended; and
\* [0x50,0x01,0x66] has written 0x01 and ended when the first tick returns.
C2_TickWritesOperands ==
    (start = "ready" /\ ~should_loop /\ WellFormed(data)) =>
        /\ IsPrefix(played, Operands(data))
        /\ end_of_song => played = Operands(data)
        /\ (data = <<OpWrite, \h01, OpEnd>> /\ ticks >= 1 /\ pc = "idle")
               => (end_of_song /\ played = <<\h01>>)

C2_TwoWritesPlayed ==
    /\ start = "ready"
    /\ data = <<OpWrite, \h01, OpWrite, \h02, OpEnd>>
    /\ end_of_song
    /\ played = <<\h01, \h02>>

\* C3: a tick() called once the song has ended fails with the end-of-song
\* error, writes nothing and leaves cursor, pending wait and ended flag as
\* they were.
C3_EndedTickFails ==
    [][ (end_of_song /\ op' = "tick") =>
            /\ result' = EndOfSong
            /\ port' = <<>>
            /\ pc' = "idle"
            /\ UNCHANGED <<data, offset, ticks_to_wait, end_of_song, played>>
      ]_vars

C3_TickedAfterEnd ==
    /\ end_of_song
    /\ op = "tick"
    /\ result = EndOfSong
    /\ ticks >= 2

OneTickWait == <<OpWaitN, \hDF, \h02, OpEnd>>

\* C4 as documented: on [0x61,0xDF,0x02,0x66] from Ready the first tick leaves
\* one pending tick, the second counts it down to 0 and ends the song.
C4_WaitLeavesOnePending ==
    (start = "ready" /\ ~should_loop /\ data = OneTickWait /\ pc = "idle") =>
        /\ ticks = 1 => (ticks_to_wait = 1 /\ ~end_of_song)
        /\ ticks = 2 => (ticks_to_wait = 0 /\ end_of_song)

\* C4: on [0x61,0xDF,0x02,0x66] from Ready the first tick leaves the pending
\* wait at 0 (the -1 of its own countdown plus the one tick of the wait) with
\* the cursor after the wait and the song not ended; the second counts it
\* down to -1, reads the 0x66 and ends the song.
C4_WaitLeavesNonePending ==
    (start = "ready" /\ ~should_loop /\ data = OneTickWait /\ pc = "idle") =>
        /\ ticks = 1 => (ticks_to_wait = 0 /\ offset = 3 /\ ~end_of_song)
        /\ ticks = 2 => (ticks_to_wait = -1 /\ end_of_song)

C4_SecondTickEnded ==
    /\ start = "ready"
    /\ ~should_loop
    /\ data = OneTickWait
    /\ pc = "idle"
    /\ ticks = 2
    /\ end_of_song

\* C5: every tick() call returns or fails after bounded work: its loop
\* interprets no offset of the stream twice.  (The loop's course depends on i
\* alone, data and the loop settings being fixed during a call: a call that
\* comes back to an offset never leaves the loop.)
C5_NoOffsetTwice == pc = "tick" => i \notin seen

\* the loop is about to read the end marker
AtEndMarker == pc = "tick" /\ i < Len(data) /\ Index(data, i) = [ok |-> TRUE, val |-> OpEnd]

\* C6: on a track with a loop, reading the end marker moves the cursor to the
\* loop point and the same call goes on, and the ended flag is never set
\* while such a track is loaded; without a loop, reading the end marker sets
\* the ended flag and the call returns.
C6_LoopNeverEnds ==
    /\ [][ AtEndMarker =>
              IF should_loop
              THEN i' = loop_offset /\ pc' = "tick" /\ ~end_of_song'
              ELSE end_of_song' /\ pc' = "idle" ]_vars
    /\ []((start # "none" /\ should_loop) => ~end_of_song)

TickErrors == {"Unknown value", "unexpected offset", "IndexError", "buffer too small"}

\* C7: after a tick() that failed on an unknown opcode or past the end of the
\* stream, every tick() fails too and writes nothing.
C7_ErrorHaltsPlayback ==
    [][ (result.kind \in {"Unknown value", "unexpected offset"} /\ op' = "tick") =>
            /\ port' = <<>>
            /\ pc' = "idle" => result'.kind \in TickErrors ]_vars

\* C8: the loop, at a byte inside the stream that is no opcode, fails with
\* the unknown-command error naming that offset and that byte; at an offset
\* at or past the end of the stream it fails with the unexpected-offset error
\* naming the offset; the ended flag is not set.
C8_ErrorsNameOffset ==
    [][ pc = "tick" =>
            /\ (0 <= i /\ i < Len(data)
                  /\ data[i + 1] \notin {OpWrite, OpWaitN, OpWaitOne, OpEnd})
               => /\ pc' = "idle"
                  /\ result' = Outcome("Unknown value", i, data[i + 1])
                  /\ ~end_of_song'
            /\ i >= Len(data)
               => /\ pc' = "idle"
                  /\ result' = Outcome("unexpected offset", i, Len(data))
                  /\ ~end_of_song' ]_vars

C8_UnknownAfterWrite ==
    /\ data = <<OpWrite, \h01, \h63>>
    /\ op = "tick"
    /\ pc = "idle"
    /\ port = <<\h01>>
    /\ result = Outcome("Unknown value", 2, \h63)

\* the first four bytes of a file
First4(f) == SubSeq(Bytes(f), 1, Min(4, Len(Bytes(f))))

\* C9: load_vgm reports the first of: a tag that is not "Vgm " (invalid
\* header), a version word that is not 0x150, a clock word that is not
\* 3579545.
C9_HeaderErrorsInOrder ==
    [][ \A k \in DOMAIN disk : Load(k) =>
          LET f == disk[k]
          IN  /\ First4(f) # VgmTag => result'.kind = "Invalid header"
              /\ (First4(f) = VgmTag /\ f.cut >= 12 /\ f.version # VgmVersion)
                 => result'.kind = "Invalid VGM version format"
              /\ (First4(f) = VgmTag /\ f.cut >= 16 /\ f.version = VgmVersion
                    /\ f.clock # PsgClock)
                 => result'.kind = "Invalid VGM clock freq" ]_vars

\* C10: a load_vgm that succeeds found the file at least eof_offset + 4 bytes
\* long, and its command stream is the bytes [0x40, eof_offset + 4) of the file.
C10_StreamIsDeclaredRange ==
    [][ \A k \in DOMAIN disk : (Load(k) /\ result' = Ok) =>
          LET f == disk[k]
          IN  /\ Len(Bytes(f)) >= f.eof + 4
              /\ data' = SubSeq(Bytes(f), HeaderLen + 1, f.eof + 4) ]_vars

----------------------------------------------------------------------------
(* What the documentation says of the reset, the encoders and the note     *)
(* player, and of the player's waits, loop points and failures.            *)

\* C11: reset(), whatever the state it is called in, writes the four bytes
\* 0x9F, 0xBF, 0xDF, 0xFF in that order and nothing else, and leaves the
\* cursor at 0.
C11_ResetWritesSilence ==
    op = "reset" => (port = <<\h9F, \hBF, \hDF, \hFF>> /\ offset = 0 /\ result = Ok)

\* a reset() that came after ticks that wrote bytes and moved the counter
C11_ResetAfterPlaying ==
    /\ op = "reset"
    /\ played # <<>>
    /\ ticks_to_wait # 0
    /\ offset = 0

\* set_vol(2, 15) called right after set_vol(2, 0)
VolumeDownThenUp ==
    /\ op = "set_vol" /\ call = <<2, 0>>
    /\ op' = "set_vol" /\ call' = <<2, 15>>

\* C12 as documented: set_volume(2, 0) and then set_volume(2, 15) write 0xB5
\* and then 0xA0.
C12_VolumeBytesB5A0 ==
    [][ VolumeDownThenUp => (port = <<\hB5>> /\ port' = <<\hA0>>) ]_vars

\* C12: set_volume(channel, volume) writes the one byte
\* 0b1001_0000 | (channel << 5) | (15 - volume), whose fields do not overlap:
\* volume 0 is attenuation 15, volume 15 is attenuation 0; set_volume(2, 0)
\* and then set_volume(2, 15) write 0xDF and then 0xD0.
C12_VolumeBytesDFD0 ==
    /\ [](op = "set_vol" =>
            /\ port = <<144 + 32 * call[1] + (15 - call[2])>>
            /\ call[2] = 0 => port[1] % 16 = 15
            /\ call[2] = 15 => port[1] % 16 = 0)
    /\ [][ VolumeDownThenUp => (port = <<\hDF>> /\ port' = <<\hD0>>) ]_vars

C12_VolumeUpWritten ==
    /\ op = "set_vol"
    /\ call = <<2, 15>>
    /\ port = <<\hD0>>

\* C13: set_tone(channel, f), for a channel in 0..2 and a whole positive f,
\* writes two bytes: the latch byte 0x80 | (channel << 5) | (reg & 0xF) and
\* then the data byte reg >> 4, bit 7 clear, for
\* reg = min(floor(3579545 / (32 * f)), 1021); the 10-bit value the two bytes
\* carry is never 1022 or 1023; set_tone(0, 440) writes 0x8E and then 0x0F.
C13_ToneBytes ==
    op = "play_freq" =>
        LET channel == call[1]
            f == call[2]
            q == 3579545 \div (32 * f)
            reg == IF q > 1021 THEN 1021 ELSE q
        IN  /\ port = <<128 + 32 * channel + (reg % 16), reg \div 16>>
            /\ port[2] < 128
            /\ (port[1] % 16) + 16 * port[2] \notin {1022, 1023}
            /\ call = <<0, 440>> => port = <<\h8E, \h0F>>

\* a frequency under the range of the chip: reg is held at 1021 = 0x3FD
C13_LowToneHeld ==
    /\ op = "play_freq"
    /\ call = <<1, 109>>
    /\ port = <<\hAD, \h3F>>

\* the characters of the script language: the token letters, # and the digits
ScriptAlphabet == TokenChars \cup {"#"} \cup DOMAIN Digits

\* C14: play(script), at a character outside the script language, fails with
\* an unknown-token error; the call does not stay on that character (its loop
\* comes to no index twice).
C14_UnknownTokenFails ==
    /\ [][ (pc = "notes" /\ i < Len(notes) /\ notes[i + 1] \notin ScriptAlphabet)
             => (pc' = "idle" /\ result'.kind = "UnknownTokenError") ]_vars
    /\ [](pc = "notes" => i \notin seen)

\* C15: after V<n> the notes are played on channel n: play("V1C") returns
\* normally, having written the volume-9 byte of channel 1, the latch and
\* data bytes of C in octave 4 (reg 427 = 0x1AB) on channel 1, the volume-0
\* byte of channel 1 and then the volume-0 byte of channel 0.
C15_VoiceSelectsChannel ==
    (op = "play_notes" /\ pc = "idle" /\ call = <<"V", "1", "C">>) =>
        /\ result = Ok
        /\ port = <<\hB6, \hAB, \h1A, \hBF, \h9F>>

\* a tick() call is entered
TickEntered == pc = "idle" /\ op' = "tick"

\* the call only counts the wait down and returns
IdleTick ==
    /\ ticks_to_wait' = ticks_to_wait - 1
    /\ pc' = "idle"
    /\ result' = Ok
    /\ port' = <<>>
    /\ UNCHANGED <<data, offset, end_of_song, played>>

\* C16: a tick() entered with ended = false and a pending wait above 0 (the
\* value before the call's countdown) only counts the wait down and returns:
\* it interprets no command, writes nothing and leaves the cursor; so a call
\* entered with a pending wait of 1 is an idle tick.
C16_IdleAboveZero ==
    [][ (TickEntered /\ ~end_of_song /\ ticks_to_wait > 0) => IdleTick ]_vars

\* C17: a nonzero loop word leaves loop_offset = loop word + 0x1C - 0x40; when
\* that is no index of the command stream (below 0, or at or over its
\* length), the tick() that jumps there from the end marker fails with the
\* unexpected-offset error and interprets no byte at that offset.
C17_BadLoopPointFails ==
    /\ [][ \A k \in DOMAIN disk :
              (Load(k) /\ result' = Ok /\ disk[k].loop # 0) =>
                  (should_loop' /\ loop_offset' = disk[k].loop + \h1C - \h40) ]_vars
    /\ [][ (pc = "tick" /\ (i < 0 \/ i >= Len(data))) =>
              /\ pc' = "idle"
              /\ result'.kind = "unexpected offset"
              /\ UNCHANGED <<port, played, ticks_to_wait, end_of_song>> ]_vars

\* C18: between the tick() calls on a track played from Ready the pending
\* wait is at least -1: the -1 of an interpreting tick does not add up over
\* the ticks (over waits shorter than 735 samples, say), so that no later
\* wait is cut short by more than one tick.
C18_DebtAtMostOne ==
    (start = "ready" /\ pc = "idle" /\ result = Ok) => ticks_to_wait >= -1

\* the loop is at a 0x50 that is the last byte of the stream, or at a 0x61
\* with fewer than two bytes after it
AtCutCommand ==
    /\ pc = "tick"
    /\ 0 <= i /\ i < Len(data)
    /\ \/ data[i + 1] = OpWrite /\ i + 2 > Len(data)
       \/ data[i + 1] = OpWaitN /\ i + 3 > Len(data)

\* C19: tick() reads no byte of the stream at an index outside [0, length):
\* at a 0x50 that is the last byte, or a 0x61 with fewer than two bytes after
\* it, the operand is not read and the call fails with the unexpected-offset
\* error of a cursor at or past the end.
C19_CutCommandFails ==
    [][ AtCutCommand => (pc' = "idle" /\ result'.kind = "unexpected offset") ]_vars

HeaderErrors == {"Invalid header", "Invalid VGM version format", "Invalid VGM clock freq"}

\* C20: a load_vgm that fails on the tag, the version or the clock of the
\* header, called with a track loaded, changes nothing: the command stream,
\* the cursor, the pending wait, the loop settings and the ended flag stay
\* and no byte is written, so that the track can still be ticked.
C20_FailedLoadKeepsTrack ==
    [][ \A k \in DOMAIN disk :
          (start # "none" /\ Load(k) /\ result'.kind \in HeaderErrors) =>
              /\ UNCHANGED <<data, offset, ticks_to_wait, should_loop,
                             loop_offset, end_of_song>>
              /\ port' = <<>> ]_vars

====
